---- MODULE Spec2Model ----
(***************************************************************************)
(* A model of Goodread_modules.py: the field extractors, the item loaders  *)
(* of BookItem and AuthorItem, and the parse callbacks of AuthorSpider,    *)
(* BookSpider and ListSpider.                                              *)
(*                                                                         *)
(* Python str values are TLA+ strings (TLC evaluates Len, \o, SubSeq, Head *)
(* and Tail on them).  A value that may be None, or a call that may raise, *)
(* is a tagged record: Val(v), None or Raise.  A local name of the code is *)
(* a parameter of a helper operator, so that it is evaluated once.         *)
(***************************************************************************)
EXTENDS Integers, Sequences, FiniteSets, Bags, TLC

VARIABLES
    pc,            \* "ready" before the call under study, "done" after it
    called,        \* the callback the last call was: "book.parse", "author.parse", ...
    author_crawl,  \* AuthorSpider.author_crawl of the author spider in use
    response,      \* the response handed to the callback: [url, body]
    emitted,       \* what the callback yielded, in order, before it ended
    raised,        \* whether the callback ended with an exception
    arg,           \* the argument of the pure function under study
    result,        \* its result
    pending        \* the engine's scheduled requests: [url, callback, hops]

vars == <<pc, called, author_crawl, response, emitted, raised, arg, result, pending>>

-----------------------------------------------------------------------------
(* Bounds of the model.                                                    *)

MaxNodes == 3      \* nodes of a page's body
MaxArr == 5        \* elements of the array in a renderRatingGraph call
MaxLen == 5        \* tokens of an about fragment
MaxPage == 2       \* page numbers of a list
MaxAnchors == 2    \* book anchors of a list page
MaxHops == 4       \* requests deeper than this are not scheduled

-----------------------------------------------------------------------------
(* Python values.                                                          *)

None == [t |-> "None"]
Raise == [t |-> "ValueError"]
Val(v) == [t |-> "val", v |-> v]

IsVal(x) == x.t = "val"

Min(S) == CHOOSE i \in S : \A j \in S : i <= j
Max(S) == CHOOSE i \in S : \A j \in S : j <= i
MinOr(S, d) == IF S = {} THEN d ELSE Min(S)

Range(seq) == {seq[i] : i \in 1..Len(seq)}

-----------------------------------------------------------------------------
(* Python str operations.                                                  *)

Char(s, i) == SubSeq(s, i, i)

Whitespace == {" ", "\n", "\t"}
Digits == {"0", "1", "2", "3", "4", "5", "6", "7", "8", "9"}

RECURSIVE LStrip(_)
LStrip(s) == IF s # "" /\ Head(s) \in Whitespace THEN LStrip(Tail(s)) ELSE s

RECURSIVE RStrip(_)
RStrip(s) ==
    IF s # "" /\ Char(s, Len(s)) \in Whitespace
    THEN RStrip(SubSeq(s, 1, Len(s) - 1))
    ELSE s

\* str.strip()
Strip(s) == RStrip(LStrip(s))

\* s.startswith(p)
StartsWith(s, p) == Len(p) <= Len(s) /\ SubSeq(s, 1, Len(p)) = p

\* s.find(sub) + 1: the first position of sub in s, 0 when there is none
Find(s, sub) ==
    MinOr({i \in 1..(Len(s) - Len(sub) + 1) : SubSeq(s, i, i + Len(sub) - 1) = sub}, 0)

\* sub in s
Contains(s, sub) == Find(s, sub) > 0

\* s.split(sep), sep one character
RECURSIVE Split(_, _)
SplitAt(s, sep, i) ==
    IF i = 0 THEN <<s>>
    ELSE <<SubSeq(s, 1, i - 1)>> \o Split(SubSeq(s, i + 1, Len(s)), sep)

Split(s, sep) == SplitAt(s, sep, Find(s, sep))

\* s.split(): the whitespace-delimited words
RECURSIVE Words(_)
WordEnd(t) == MinOr({i \in 1..Len(t) : Char(t, i) \in Whitespace}, Len(t) + 1)

WordsFrom(t, e) ==
    IF t = "" THEN <<>> ELSE <<SubSeq(t, 1, e - 1)>> \o Words(SubSeq(t, e, Len(t)))

WordsOf(t) == WordsFrom(t, WordEnd(t))

Words(s) == WordsOf(LStrip(s))

\* s.isdigit()
IsDigit(s) == s # "" /\ \A i \in 1..Len(s) : Char(s, i) \in Digits

UpperCase == "ABCDEFGHIJKLMNOPQRSTUVWXYZ"
LowerCase == "abcdefghijklmnopqrstuvwxyz"

LowerChar(c, k) == IF k = 0 THEN c ELSE Char(LowerCase, k)

\* s.lower()
RECURSIVE Lower(_)
Lower(s) ==
    IF s = "" THEN ""
    ELSE LowerChar(Head(s), Find(UpperCase, Head(s))) \o Lower(Tail(s))

\* sep.join(parts)
RECURSIVE JoinWith(_, _)
JoinWith(sep, parts) ==
    IF parts = <<>> THEN ""
    ELSE IF Len(parts) = 1 THEN parts[1]
    ELSE parts[1] \o sep \o JoinWith(sep, Tail(parts))

DecimalDigits == "0123456789"

DigitVal(c) == Find(DecimalDigits, c) - 1

RECURSIVE DecVal(_)
DecVal(s) == IF s = "" THEN 0 ELSE 10 * DecVal(SubSeq(s, 1, Len(s) - 1)) + DigitVal(Char(s, Len(s)))

IsSigned(t) == t # "" /\ Head(t) \in {"-", "+"}

Unsigned(t) == IF IsSigned(t) THEN Tail(t) ELSE t

IntOf(t) ==
    IF ~IsDigit(Unsigned(t)) THEN Raise
    ELSE Val(IF IsSigned(t) /\ Head(t) = "-" THEN 0 - DecVal(Unsigned(t)) ELSE DecVal(Unsigned(t)))

\* int(s): surrounding whitespace and one sign are accepted; anything else
\* than decimal digits raises ValueError
PyInt(s) == IntOf(Strip(s))

FloatOf(t, parts) ==
    IF /\ Len(parts) <= 2
       /\ \A i \in 1..Len(parts) : parts[i] = "" \/ IsDigit(parts[i])
       /\ \E i \in 1..Len(parts) : parts[i] # ""
    THEN Val(t)
    ELSE Raise

FloatOfStripped(t) == FloatOf(t, Split(Unsigned(t), "."))

\* float(s), for decimal literals: digits with at most one point; the value
\* is kept as its literal
PyFloat(s) == FloatOfStripped(Strip(s))

-----------------------------------------------------------------------------
(* The field extractors.                                                   *)

\* num_page_extractor: the first whitespace-delimited word, None for "";
\* split()[0] of a blank string raises
num_page_extractor(num_pages) ==
    IF num_pages = "" THEN None
    ELSE IF Words(num_pages) = <<>> THEN Raise
    ELSE Val(Words(num_pages)[1])

MonthNames ==
    <<"january", "february", "march", "april", "may", "june", "july",
      "august", "september", "october", "november", "december">>

MonthOfLower(w) == MinOr({m \in 1..12 : w \in {MonthNames[m], SubSeq(MonthNames[m], 1, 3)}}, 0)

MonthOf(w) == MonthOfLower(Lower(w))

IsYearWord(w) == Len(w) = 4 /\ IsDigit(w)

DayDigits(w) ==
    IF Len(w) > 2 /\ Lower(SubSeq(w, Len(w) - 1, Len(w))) \in {"st", "nd", "rd", "th"}
    THEN SubSeq(w, 1, Len(w) - 2)
    ELSE w

IsDayDigits(d) == Len(d) \in {1, 2} /\ IsDigit(d) /\ DecVal(d) \in 1..31

IsDayWord(w) == IsDayDigits(DayDigits(w))

Pad2(n) == Char(DecimalDigits, (n \div 10) + 1) \o Char(DecimalDigits, (n % 10) + 1)

DateFrom(ws, ys, ms, ds) ==
    IF ys = {} /\ ms = {} /\ ds = {} THEN Raise
    ELSE Val((IF ys = {} THEN "1" ELSE ws[Min(ys)])
             \o "-" \o Pad2(IF ms = {} THEN 1 ELSE MonthOf(ws[Min(ms)]))
             \o "-" \o Pad2(IF ds = {} THEN 1 ELSE DecVal(DayDigits(ws[Min(ds)])))
             \o " 00:00:00")

DateFromWords(ws) ==
    DateFrom(ws, {i \in 1..Len(ws) : IsYearWord(ws[i])},
                 {i \in 1..Len(ws) : MonthOf(ws[i]) > 0},
                 {i \in 1..Len(ws) : IsDayWord(ws[i])})

\* dateutil's parse(date, fuzzy=True, default=datetime.min), for dates written
\* as words: a month name, a day (1..31, with or without an ordinal suffix) and
\* a four-digit year, each optional, among words that fuzzy parsing skips.  A
\* string with none of them raises ValueError.  Then strftime("%Y-%m-%d
\* %H:%M:%S"), the missing components being those of datetime.min.
DateutilParse(date) == DateFromWords(Words(date))

ValueErrorToNone(r) == IF r = Raise THEN None ELSE r

\* safe_parse_date: the ValueError of the parse becomes None
safe_parse_date(date) == ValueErrorToNone(DateutilParse(date))

\* extract_publish_dates: one entry, a date or None, per line mentioning
\* "published"
RECURSIVE extract_publish_dates(_)
extract_publish_dates(maybe_dates) ==
    IF maybe_dates = <<>> THEN <<>>
    ELSE (IF Contains(Lower(Head(maybe_dates)), "published")
          THEN <<safe_parse_date(Head(maybe_dates))>>
          ELSE <<>>) \o extract_publish_dates(Tail(maybe_dates))

FirstPublished == "first published"

YearAt(s, hits) == IF hits = {} THEN None ELSE Val(SubSeq(s, Max(hits), Max(hits) + 3))

YearAfter(s, p) ==
    IF p = 0 THEN None
    ELSE YearAt(s, {q \in (p + Len(FirstPublished))..(Len(s) - 3) :
                       /\ IsDigit(SubSeq(s, q, q + 3))
                       /\ ~Contains(SubSeq(s, 1, q + 3), "\n")})

YearIn(s) == YearAfter(s, Find(s, FirstPublished))

\* extract_year: re.match(".*first published.*(\d{4})", s.lower().strip());
\* "." matches no newline, and the second ".*" is greedy: the last four
\* digits after the marker
extract_year(s) == YearIn(Strip(Lower(s)))

RatingMarker == "renderRatingGraph"

\* the lines of the script that mention the marker, stripped
RECURSIVE RatingCode(_)
RatingCode(codelines) ==
    IF codelines = <<>> THEN <<>>
    ELSE (IF Contains(Head(codelines), RatingMarker) THEN <<Strip(Head(codelines))>> ELSE <<>>)
         \o RatingCode(Tail(codelines))

\* {5 - i: int(x) for i, x in enumerate(xs)}
RatingDict(xs) == [k \in {5 - i : i \in 0..(Len(xs) - 1)} |-> PyInt(xs[5 - k + 1]).v]

RatingsFrom(xs) ==
    IF \E k \in 1..Len(xs) : PyInt(xs[k]) = Raise THEN Raise ELSE Val(RatingDict(xs))

\* rating_code[rating_code.index("[") + 1:rating_code.index("]")], then the
\* dict; str.index raises ValueError for a missing bracket
RatingsIn(code, i, j) ==
    IF i = 0 \/ j = 0 THEN Raise
    ELSE RatingsFrom(Split(IF j - 1 >= i + 1 THEN SubSeq(code, i + 1, j - 1) ELSE "", ","))

RatingsOf(rating_code) ==
    IF rating_code = <<>> THEN None
    ELSE RatingsIn(rating_code[1], Find(rating_code[1], "["), Find(rating_code[1], "]"))

\* extract_ratings: None without the marker; ValueError when the marker's line
\* has no "[" or no "]" or an element int() rejects
extract_ratings(txt) == RatingsOf(RatingCode(Split(txt, ";")))

\* filter_asin
filter_asin(asin) == IF asin # "" /\ Len(asin) = 10 THEN Val(asin) ELSE None

\* a filter on the length alone, as filter_asin is
isbn_filter_length(isbn) == IF isbn # "" /\ Len(isbn) = 10 THEN Val(isbn) ELSE None

\* isbn_filter
isbn_filter(isbn) ==
    IF isbn # "" /\ Len(isbn) = 10 /\ IsDigit(isbn) THEN Val(isbn) ELSE None

\* isbn13_filter
isbn13_filter(isbn) ==
    IF isbn # "" /\ Len(isbn) = 13 /\ IsDigit(isbn) THEN Val(isbn) ELSE None

\* filter_empty
RECURSIVE filter_empty(_)
filter_empty(vals) ==
    IF vals = <<>> THEN <<>>
    ELSE (IF Strip(Head(vals)) # "" THEN <<Strip(Head(vals))>> ELSE <<>>)
         \o filter_empty(Tail(vals))

\* split_by_newline
split_by_newline(txt) == Split(txt, "\n")

\* w3lib's remove_tags: every match of "</?([^ >/]+).*?>" (DOTALL) is deleted
RECURSIVE remove_tags(_)
TagNameAt(s) == IF Len(s) >= 2 /\ Char(s, 2) = "/" THEN 3 ELSE 2

TagClose(s, g) ==
    IF Head(s) = "<" /\ g <= Len(s) /\ Char(s, g) \notin {" ", ">", "/"}
    THEN Find(SubSeq(s, g + 1, Len(s)), ">")
    ELSE 0

RemoveTagAt(s, g, close) ==
    IF close > 0
    THEN remove_tags(SubSeq(s, g + close + 1, Len(s)))
    ELSE Head(s) \o remove_tags(Tail(s))

remove_tags(s) ==
    IF s = "" THEN "" ELSE RemoveTagAt(s, TagNameAt(s), TagClose(s, TagNameAt(s)))

-----------------------------------------------------------------------------
(* The processors of itemloaders, as the fields use them.  A processed     *)
(* input is [raised, vals]: whether a function of the chain raised (the    *)
(* loader re-raises it as ValueError out of add_css), else the values kept.*)

Processed(vals) == [raised |-> FALSE, vals |-> vals]
ProcessorError == [raised |-> TRUE, vals |-> <<>>]

ValuesOf(kept) == [i \in 1..Len(kept) |-> kept[i].v]

\* One stage of MapCompose, given the stage's function applied to every
\* value (each result Val(v), None or Raise): a None result contributes
\* nothing, an exception ends the call.
MapStage(rs) ==
    IF \E i \in 1..Len(rs) : rs[i] = Raise THEN ProcessorError
    ELSE Processed(ValuesOf(SelectSeq(rs, IsVal)))

\* MapCompose(str.strip)
MapStrip(vals) == MapStage([i \in 1..Len(vals) |-> Val(Strip(vals[i]))])

FirstAt(vals, ok) == IF ok = {} THEN None ELSE Val(vals[Min(ok)])

\* TakeFirst: the first value that is neither None nor ""
TakeFirst(vals) == FirstAt(vals, {i \in 1..Len(vals) : vals[i] # ""})

\* TakeFirst over values that are not str (an int, a dict): none is ""
TakeFirstValue(vals) == IF vals = <<>> THEN None ELSE Val(vals[1])

FirstEntryAt(entries, ok) == IF ok = {} THEN None ELSE entries[Min(ok)]

\* TakeFirst over the entries of extract_publish_dates, each a date or None
TakeFirstDate(entries) ==
    FirstEntryAt(entries, {i \in 1..Len(entries) : entries[i] # None /\ entries[i].v # ""})

\* Identity as an output processor: the values as collected.  load_item sets
\* no field that collected nothing.
IdentityOut(vals) == IF vals = <<>> THEN None ELSE Val(vals)

Orderings(S) ==
    {f \in [1..Cardinality(S) -> S] : \A x \in S : \E i \in 1..Cardinality(S) : f[i] = x}

\* the values as a list, without the set
ComposeList(vals) == {vals}

\* Compose(set, list): the distinct values, in the set's iteration order,
\* which is any order
ComposeSetList(vals) == Orderings(Range(vals))

\* a Join on newlines
JoinLines(vals) == JoinWith("\n", vals)

\* Join(): the values joined by the default separator, one space
Join(vals) == JoinWith(" ", vals)

-----------------------------------------------------------------------------
(* A response is [url, body]; the body is the page's nodes in document     *)
(* order, each [sel, attr, text]: the element's place in the page as the   *)
(* selectors see it, its href (or content) attribute, and its text.        *)

Node(sel, attr, text) == [sel |-> sel, attr |-> attr, text |-> text]

TextsOf(nodes) == [i \in 1..Len(nodes) |-> nodes[i].text]
AttrsOf(nodes) == [i \in 1..Len(nodes) |-> nodes[i].attr]

\* response.css(sel): the nodes at that place
Css(body, sel) == SelectSeq(body, LAMBDA n : n.sel = sel)

\* response.css(sel + '[href*=part]')
CssHref(body, sel, part) == SelectSeq(body, LAMBDA n : n.sel = sel /\ Contains(n.attr, part))

AnchorSels == {"a", "a.award", "a.authorName", "a.bookTitle", "div.dataItem>a", "div.dataItem>span>a",
               "div.infoBoxRowItem>a", "div.left>a.bookPageGenreLink"}

\* response.css('a[href*=part]'): every anchor, wherever it is
CssAnyAnchor(body, part) ==
    SelectSeq(body, LAMBDA n : n.sel \in AnchorSels /\ Contains(n.attr, part))

\* response.css('div.infoBoxRowItem::text'): the rows with the isbn itemprop
\* are rows too
CssInfoRows(body) ==
    SelectSeq(body, LAMBDA n : n.sel \in {"div.infoBoxRowItem", "div.infoBoxRowItem[itemprop=isbn]"})

\* .extract_first()
ExtractFirst(vals) == IF vals = <<>> THEN None ELSE Val(vals[1])

\* response.follow(url, callback): the request for urljoin(response.url, url),
\* for the absolute and the root-relative links of the site
Follow(resp, url, callback) ==
    [kind |-> "request",
     url |-> IF StartsWith(url, "https://") THEN url ELSE "https://www.goodreads.com" \o url,
     callback |-> callback]

FollowAll(resp, urls, callback) == [i \in 1..Len(urls) |-> Follow(resp, urls[i], callback)]

Item(cls, fields) == [kind |-> "item", cls |-> cls, fields |-> fields]

Yield(out) == [out |-> out, raised |-> FALSE]
YieldThenRaise(out) == [out |-> out, raised |-> TRUE]

-----------------------------------------------------------------------------
(* BookItem: the input processor of each field, over the fragments of one  *)
(* add_css call.                                                           *)

\* the next function of a MapCompose, over the values the stage before kept
IntStage(a) ==
    IF a.raised THEN a ELSE MapStage([i \in 1..Len(a.vals) |-> PyInt(a.vals[i])])
FloatStage(a) ==
    IF a.raised THEN a ELSE MapStage([i \in 1..Len(a.vals) |-> PyFloat(a.vals[i])])
NumPageStage(a) ==
    IF a.raised THEN a ELSE MapStage([i \in 1..Len(a.vals) |-> num_page_extractor(a.vals[i])])
IsbnStage(a) ==
    IF a.raised THEN a ELSE MapStage([i \in 1..Len(a.vals) |-> isbn_filter(a.vals[i])])
Isbn13Stage(a) ==
    IF a.raised THEN a ELSE MapStage([i \in 1..Len(a.vals) |-> isbn13_filter(a.vals[i])])

\* title, author, language: MapCompose(str.strip)
BookItem_text(vals) == MapStrip(vals)

\* num_ratings, num_reviews: MapCompose(str.strip, int)
BookItem_count(vals) == IntStage(MapStrip(vals))

\* avg_rating: MapCompose(str.strip, float)
BookItem_avg_rating(vals) == FloatStage(MapStrip(vals))

\* num_pages: MapCompose(str.strip, num_page_extractor, int)
BookItem_num_pages(vals) == IntStage(NumPageStage(MapStrip(vals)))

\* publish_date: extract_publish_dates, on the whole list
BookItem_publish_date(vals) == Processed(extract_publish_dates(vals))

\* original_publish_year: MapCompose(extract_year, int)
BookItem_original_publish_year(vals) ==
    IntStage(MapStage([i \in 1..Len(vals) |-> extract_year(vals[i])]))

\* isbn: MapCompose(str.strip, isbn_filter)
BookItem_isbn(vals) == IsbnStage(MapStrip(vals))

\* isbn13: MapCompose(str.strip, isbn13_filter)
BookItem_isbn13(vals) == Isbn13Stage(MapStrip(vals))

\* asin: MapCompose(filter_asin)
BookItem_asin(vals) == MapStage([i \in 1..Len(vals) |-> filter_asin(vals[i])])

\* rating_histogram: MapCompose(extract_ratings)
BookItem_rating_histogram(vals) ==
    MapStage([i \in 1..Len(vals) |-> extract_ratings(vals[i])])

\* the fields without an input processor: Identity
Identity(vals) == Processed(vals)

-----------------------------------------------------------------------------
(* BookSpider.parse.                                                       *)

BookLoaderValuesOf(url, body, isbn_row, isbn_span, rows, grey) ==
    [url |-> <<Identity(<<url>>)>>,
     title |-> <<BookItem_text(TextsOf(Css(body, "#bookTitle")))>>,
     author |-> <<BookItem_text(TextsOf(Css(body, "a.authorName")))>>,
     num_ratings |-> <<BookItem_count(AttrsOf(Css(body, "[itemprop=ratingCount]")))>>,
     num_reviews |-> <<BookItem_count(AttrsOf(Css(body, "[itemprop=reviewCount]")))>>,
     avg_rating |-> <<BookItem_avg_rating(TextsOf(Css(body, "span[itemprop=ratingValue]")))>>,
     num_pages |-> <<BookItem_num_pages(TextsOf(Css(body, "span[itemprop=numberOfPages]")))>>,
     language |-> <<BookItem_text(TextsOf(Css(body, "div[itemprop=inLanguage]")))>>,
     publish_date |-> <<BookItem_publish_date(TextsOf(Css(body, "div.row"))),
                        BookItem_publish_date(grey)>>,
     original_publish_year |-> <<BookItem_original_publish_year(grey)>>,
     genres |-> <<Identity(TextsOf(CssHref(body, "div.left>a.bookPageGenreLink", "/genres/")))>>,
     awards |-> <<Identity(TextsOf(Css(body, "a.award")))>>,
     characters |-> <<Identity(TextsOf(CssAnyAnchor(body, "/characters/")))>>,
     places |-> <<Identity(TextsOf(CssHref(body, "div.infoBoxRowItem>a", "places")))>>,
     series |-> <<Identity(TextsOf(CssHref(body, "div.infoBoxRowItem>a", "/series/")))>>,
     asin |-> <<BookItem_asin(isbn_row)>>,
     isbn |-> <<BookItem_isbn(isbn_row), BookItem_isbn(isbn_span), BookItem_isbn(rows)>>,
     isbn13 |-> <<BookItem_isbn13(isbn_row), BookItem_isbn13(isbn_span), BookItem_isbn13(rows)>>,
     rating_histogram |-> <<BookItem_rating_histogram(TextsOf(Css(body, "script[type*=protovis]")))>>]

\* The loader's collected values, per field, after the add_value and add_css
\* calls of parse, one entry per call on the field, in call order.
BookLoaderValues(resp) ==
    BookLoaderValuesOf(resp.url, resp.body,
                       TextsOf(Css(resp.body, "div.infoBoxRowItem[itemprop=isbn]")),
                       TextsOf(Css(resp.body, "span[itemprop=isbn]")),
                       TextsOf(CssInfoRows(resp.body)),
                       TextsOf(Css(resp.body, "nobr.greyText")))

\* whether one of the add_css calls raised
LoaderRaised(values) ==
    \E f \in DOMAIN values : \E i \in 1..Len(values[f]) : values[f][i].raised

\* a field's collected values: those of its add_css calls, in call order
RECURSIVE Collected(_)
Collected(calls) == IF calls = <<>> THEN <<>> ELSE Head(calls).vals \o Collected(Tail(calls))

\* the genres a Book may be given: any order of the distinct fragments
BookGenres(resp) ==
    ComposeSetList(TextsOf(CssHref(resp.body, "div.left>a.bookPageGenreLink", "/genres/")))

\* loader.load_item() of BookSpider.parse: each field's output processor on
\* what it collected; genres_list is the list Compose(set, list) made
BookItemOf(v, genres_list) ==
    Item("Book",
      [url |-> TakeFirst(Collected(v.url)),
       title |-> TakeFirst(Collected(v.title)),
       author |-> TakeFirst(Collected(v.author)),
       num_ratings |-> TakeFirstValue(Collected(v.num_ratings)),
       num_reviews |-> TakeFirstValue(Collected(v.num_reviews)),
       avg_rating |-> TakeFirstValue(Collected(v.avg_rating)),
       num_pages |-> TakeFirstValue(Collected(v.num_pages)),
       language |-> TakeFirst(Collected(v.language)),
       publish_date |-> TakeFirstDate(Collected(v.publish_date)),
       original_publish_year |-> TakeFirstValue(Collected(v.original_publish_year)),
       isbn |-> TakeFirst(Collected(v.isbn)),
       isbn13 |-> TakeFirst(Collected(v.isbn13)),
       asin |-> TakeFirst(Collected(v.asin)),
       series |-> TakeFirst(Collected(v.series)),
       awards |-> IdentityOut(Collected(v.awards)),
       places |-> IdentityOut(Collected(v.places)),
       characters |-> IdentityOut(Collected(v.characters)),
       genres |-> IdentityOut(genres_list),
       rating_histogram |-> TakeFirstValue(Collected(v.rating_histogram))])

\* the yields of BookSpider.parse: none when an add_css call raised; else the
\* Book, then the request for the author's page.  Without an a.authorName the
\* url is None and response.follow raises ValueError("url can't be None")
\* after the Book was yielded.
BookYield(resp, values, author_url, genres_list) ==
    IF LoaderRaised(values) THEN YieldThenRaise(<<>>)
    ELSE IF author_url = None THEN YieldThenRaise(<<BookItemOf(values, genres_list)>>)
    ELSE Yield(<<BookItemOf(values, genres_list), Follow(resp, author_url.v, "author.parse")>>)

\* BookSpider.parse
BookSpider_parse(resp, genres_list) ==
    BookYield(resp, BookLoaderValues(resp),
              ExtractFirst(AttrsOf(Css(resp.body, "a.authorName"))), genres_list)

-----------------------------------------------------------------------------
(* AuthorItem and AuthorSpider.                                            *)

\* birth_date, death_date: MapCompose(safe_parse_date)
AuthorItem_date(vals) == MapStage([i \in 1..Len(vals) |-> safe_parse_date(vals[i])])

\* lambda s: s[1:]
DropFirst(lines) == IF lines = <<>> THEN <<>> ELSE Tail(lines)

AboutLines(first) ==
    IF first = None THEN Processed(<<>>)
    ELSE Processed(DropFirst(filter_empty(split_by_newline(remove_tags(first.v)))))

\* about, input: Compose(TakeFirst(), remove_tags, split_by_newline,
\* filter_empty, lambda s: s[1:]); Compose stops at a None
AuthorItem_about(vals) == AboutLines(TakeFirst(vals))

\* about, output: Join(); load_item sets no field that collected nothing
AuthorItem_about_out(vals) == IF vals = <<>> THEN None ELSE Val(Join(vals))

\* The loader's collected values, per field, after the calls of parse_author
AuthorLoaderValues(resp) ==
    [url |-> Identity(<<resp.url>>),
     name |-> Identity(TextsOf(Css(resp.body, "h1.authorName>span[itemprop=name]"))),
     birth_date |-> AuthorItem_date(TextsOf(Css(resp.body, "div.dataItem[itemprop=birthDate]"))),
     death_date |-> AuthorItem_date(TextsOf(Css(resp.body, "div.dataItem[itemprop=deathDate]"))),
     genres |-> Identity(TextsOf(CssHref(resp.body, "div.dataItem>a", "/genres/"))),
     influences |-> Identity(TextsOf(CssHref(resp.body, "div.dataItem>span>a", "/author/show"))),
     avg_rating |-> Identity(TextsOf(Css(resp.body, "span.average[itemprop=ratingValue]"))),
     num_reviews |-> Identity(AttrsOf(Css(resp.body, "span[itemprop=reviewCount]"))),
     num_ratings |-> Identity(AttrsOf(Css(resp.body, "span[itemprop=ratingCount]"))),
     about |-> AuthorItem_about(TextsOf(Css(resp.body, "div.aboutAuthorInfo")))]

\* the genres and the influences an Author may be given: any order of the
\* distinct fragments
AuthorGenres(resp) ==
    ComposeSetList(TextsOf(CssHref(resp.body, "div.dataItem>a", "/genres/")))

AuthorInfluences(resp) ==
    ComposeSetList(TextsOf(CssHref(resp.body, "div.dataItem>span>a", "/author/show")))

AuthorItemOf(v, genres_list, influences_list) ==
    Item("Author",
      [url |-> TakeFirst(v.url.vals),
       name |-> TakeFirst(v.name.vals),
       birth_date |-> TakeFirst(v.birth_date.vals),
       death_date |-> TakeFirst(v.death_date.vals),
       avg_rating |-> TakeFirst(v.avg_rating.vals),
       num_ratings |-> TakeFirst(v.num_ratings.vals),
       num_reviews |-> TakeFirst(v.num_reviews.vals),
       genres |-> IdentityOut(genres_list),
       influences |-> IdentityOut(influences_list),
       about |-> AuthorItem_about_out(v.about.vals)])

\* AuthorSpider.parse_author; no input processor of AuthorItem raises
parse_author(resp, genres_list, influences_list) ==
    AuthorItemOf(AuthorLoaderValues(resp), genres_list, influences_list)

\* str(x) of a constructor argument: a str, or a bool
PyStr(x) == IF x.t = "bool" THEN (IF x.v THEN "True" ELSE "False") ELSE x.v

DefaultAuthorCrawl == [t |-> "str", v |-> "False"]

\* AuthorSpider.__init__: self.author_crawl
AuthorSpider_init(author_crawl_arg) == Lower(PyStr(author_crawl_arg)) \in {"true", "yes", "y"}

\* an AuthorSpider constructed for an author crawl
BookSpider_init_crawl == AuthorSpider_init([t |-> "str", v |-> "True"])

\* BookSpider.__init__: self.author_spider = AuthorSpider()
BookSpider_init == AuthorSpider_init(DefaultAuthorCrawl)

\* the blog pages parse does not follow
IsBlogPage(url) == Contains(url, "/blog?page=")

\* the pages parse takes for an author's page
IsAuthorPage(url) == StartsWith(url, "https://www.goodreads.com/author/show/")

influence_author_urls(body) == AttrsOf(CssHref(body, "div.dataItem>span>a", "/author/show"))

similar_authors(body) == ExtractFirst(AttrsOf(CssAnyAnchor(body, "/author/similar")))

\* the author links outside the influences only
other_authors_on_this_page(body) ==
    AttrsOf(SelectSeq(CssAnyAnchor(body, "/author/show"), LAMBDA n : n.sel # "div.dataItem>span>a"))

all_authors_on_this_page(body) == AttrsOf(CssAnyAnchor(body, "/author/show"))

FollowSimilar(resp, similar) ==
    IF similar # None /\ similar.v # ""
    THEN <<Follow(resp, similar.v, "author.parse")>>
    ELSE <<>>

\* the requests parse yields when an author crawl is enabled
AuthorCrawlRequests(resp) ==
    FollowAll(resp, influence_author_urls(resp.body), "author.parse")
    \o FollowSimilar(resp, similar_authors(resp.body))
    \o FollowAll(resp, all_authors_on_this_page(resp.body), "author.parse")

\* a parse without the early exit of a disabled author crawl
AuthorSpider_parse_no_exit(crawl, resp, genres_list, influences_list) ==
    IF IsBlogPage(resp.url) THEN Yield(<<>>)
    ELSE Yield((IF IsAuthorPage(resp.url)
                THEN <<parse_author(resp, genres_list, influences_list)>>
                ELSE <<>>)
               \o AuthorCrawlRequests(resp))

\* a parse that looks for the blog marker only after the author's record
AuthorSpider_parse_blog_late(crawl, resp, genres_list, influences_list) ==
    Yield((IF IsAuthorPage(resp.url)
           THEN <<parse_author(resp, genres_list, influences_list)>>
           ELSE <<>>)
          \o (IF crawl /\ ~IsBlogPage(resp.url) THEN AuthorCrawlRequests(resp) ELSE <<>>))

\* AuthorSpider.parse
AuthorSpider_parse(crawl, resp, genres_list, influences_list) ==
    IF IsBlogPage(resp.url) THEN Yield(<<>>)
    ELSE Yield((IF IsAuthorPage(resp.url)
                THEN <<parse_author(resp, genres_list, influences_list)>>
                ELSE <<>>)
               \o (IF crawl THEN AuthorCrawlRequests(resp) ELSE <<>>))

-----------------------------------------------------------------------------
(* ListSpider.                                                             *)

DecStr(n) == IF n < 10 THEN Char(DecimalDigits, n + 1) ELSE Pad2(n)

\* goodreads_list_url.format(list_name, page_no)
ListUrl(list_name, page_no) ==
    "https://www.goodreads.com/list/show/" \o list_name \o "?page=" \o DecStr(page_no)

\* ListSpider.__init__: start_urls, one per page number of the range
StartUrls(list_name, start_page_no, end_page_no) ==
    [i \in 1..(IF end_page_no >= start_page_no THEN end_page_no - start_page_no + 1 ELSE 0)
        |-> ListUrl(list_name, start_page_no + i - 1)]

\* ListSpider.parse: a request per a.bookTitle, in document order
ListSpider_parse(resp) ==
    Yield(FollowAll(resp, AttrsOf(Css(resp.body, "a.bookTitle")), "book.parse"))

-----------------------------------------------------------------------------
(* The pages the spiders are given.                                        *)

SeqsUpTo(S, n) == UNION {[1..k -> S] : k \in 0..n}

IsbnNodes ==
    {Node(sel, "", t) : sel \in {"div.infoBoxRowItem[itemprop=isbn]", "span[itemprop=isbn]",
                                 "div.infoBoxRowItem"},
                        t \in {"0439023483", "\n0441172717 ", "9780439023481", "B00ABCDEFG", "English"}}

BookListNodes ==
    {Node("div.left>a.bookPageGenreLink", "/genres/fiction", "Fiction"),
     Node("div.left>a.bookPageGenreLink", "/genres/drama", "Drama"),
     Node("a.award", "/award/show/1", "Hugo"),
     Node("a.award", "/award/show/2", "Nebula"),
     Node("div.infoBoxRowItem>a", "/places/1", "Oslo"),
     Node("div.infoBoxRowItem>a", "/places/2", "Rome"),
     Node("div.infoBoxRowItem>a", "/series/1", "Saga"),
     Node("a", "/characters/1", "Ana"),
     Node("a", "/characters/2", "Bo")}

BookCountNodes ==
    {Node("[itemprop=ratingCount]", c, "") : c \in {"12", " 7\n", "abc"}}
    \cup {Node("[itemprop=reviewCount]", c, "") : c \in {"3", "n/a"}}
    \cup {Node("span[itemprop=ratingValue]", "", t) : t \in {" 4.05", "x"}}
    \cup {Node("span[itemprop=numberOfPages]", "", t) : t \in {"320 pages", "pages", " "}}

BookTextNodes ==
    {Node("#bookTitle", "", "\n Dune "),
     Node("a.authorName", "/author/show/1.A", "A"),
     Node("a.authorName", "https://www.goodreads.com/author/show/2.B", " B"),
     Node("div[itemprop=inLanguage]", "", "English"),
     Node("div.row", "", "Published May 5th 2001"),
     Node("div.row", "", "published soon"),
     Node("div.row", "", "Paperback"),
     Node("nobr.greyText", "", "(first published 1965)"),
     Node("nobr.greyText", "", "(First published June 1st 1965)"),
     Node("nobr.greyText", "", "(more)")}

BookScriptNodes ==
    {Node("script[type*=protovis]", "", t) :
        t \in {"renderRatingGraph([6, 3, 2, 2, 1]);", "x;\n renderRatingGraph([6, 3]);y",
               "renderRatingGraph(6, 3);", "renderRatingGraph([6, x]);",
               "renderRatingGraph([-1, 3, 2, 2, 1]);", "var x = 1;"}}

BookBodies ==
    SeqsUpTo(IsbnNodes, MaxNodes) \cup SeqsUpTo(BookListNodes, MaxNodes)
    \cup SeqsUpTo(BookCountNodes, MaxNodes) \cup SeqsUpTo(BookTextNodes, MaxNodes)
    \cup SeqsUpTo(BookScriptNodes, MaxNodes)

BookResponses == {[url |-> "https://www.goodreads.com/book/show/1.T", body |-> b] : b \in BookBodies}

AuthorUrls ==
    {"https://www.goodreads.com/author/show/1.A",
     "https://www.goodreads.com/author/show/1.A/blog?page=2",
     "https://www.goodreads.com/",
     "https://www.goodreads.com/author_blog_posts/1/blog?page=2"}

AuthorLinkNodes ==
    {Node("div.dataItem>span>a", "/author/show/3.C", "C"),
     Node("div.dataItem>span>a", "/author/show/4.D", "D"),
     Node("div.dataItem>span>a", "/author/list/5", "E"),
     Node("a", "/author/show/6.F", "F"),
     Node("a", "/author/similar/1.A", "Similar authors"),
     Node("a", "/author/similar/9", "More"),
     Node("a", "/book/show/1.T", "T"),
     Node("div.dataItem>a", "/genres/fiction", "Fiction"),
     Node("div.dataItem>a", "/genres/drama", "Drama"),
     Node("div.dataItem>a", "/author/show/7.G", "G")}

AuthorTextNodes ==
    {Node("h1.authorName>span[itemprop=name]", "", "A"),
     Node("div.dataItem[itemprop=birthDate]", "", "\n October 8, 1920"),
     Node("div.dataItem[itemprop=birthDate]", "", "unknown"),
     Node("div.dataItem[itemprop=deathDate]", "", "February 11, 1986"),
     Node("span.average[itemprop=ratingValue]", "", "4.21"),
     Node("span[itemprop=reviewCount]", "31", ""),
     Node("span[itemprop=ratingCount]", "1200", ""),
     Node("div.aboutAuthorInfo", "", "<div>edit data\n<b>Born</b> in \n\n Tacoma.</div>"),
     Node("div.aboutAuthorInfo", "", "<div>edit data</div>")}

AuthorBodies == SeqsUpTo(AuthorLinkNodes, MaxNodes) \cup SeqsUpTo(AuthorTextNodes, MaxNodes)

AuthorResponses == {[url |-> u, body |-> b] : u \in AuthorUrls, b \in AuthorBodies}

\* the author_crawl argument: from the command line a str, from a program
\* possibly a bool
AuthorCrawlArgs ==
    {[t |-> "str", v |-> v] : v \in {"False", "True", "true", "YES", "y", "no", "1", ""}}
    \cup {[t |-> "bool", v |-> b] : b \in BOOLEAN}

NoResponse == [url |-> "", body |-> <<>>]

-----------------------------------------------------------------------------
(* One parse call on a constructed spider.                                 *)

Init ==
    /\ pc = "ready"
    /\ called = "none"
    /\ \E a \in AuthorCrawlArgs : author_crawl = AuthorSpider_init(a)
    /\ response = NoResponse
    /\ emitted = <<>>
    /\ raised = FALSE
    /\ arg = ""
    /\ result = None
    /\ pending = <<>>

\* the callback has run on resp: what it yielded, and whether it raised
Returned(cb, resp, r) ==
    /\ pc' = "done"
    /\ called' = cb
    /\ response' = resp
    /\ emitted' = r.out
    /\ raised' = r.raised
    /\ UNCHANGED <<author_crawl, arg, result, pending>>

BookParse ==
    /\ pc = "ready"
    /\ \E resp \in BookResponses : \E g \in BookGenres(resp) :
          Returned("book.parse", resp, BookSpider_parse(resp, g))

AuthorParse ==
    /\ pc = "ready"
    /\ \E resp \in AuthorResponses :
          \E g \in AuthorGenres(resp) : \E f \in AuthorInfluences(resp) :
             Returned("author.parse", resp, AuthorSpider_parse(author_crawl, resp, g, f))

Next == BookParse \/ AuthorParse

Spec == Init /\ [][Next]_vars

-----------------------------------------------------------------------------
(* extract_ratings on its own, over scripts that call or do not call        *)
(* renderRatingGraph.                                                       *)

RatingArrays == {JoinWith(",", a) : a \in SeqsUpTo({"6", " 3", "-1", "x"}, MaxArr)}

ScriptText(shape, array) ==
    CASE shape = "call" -> "renderRatingGraph([" \o array \o "]);"
      [] shape = "later" -> "var x = 1;\n  renderRatingGraph([" \o array \o "]);\nif (y) { z() }"
      [] shape = "bare" -> "renderRatingGraph(" \o array \o ");"
      [] shape = "other" -> "drawGraph([" \o array \o "]);"

ScriptTexts == {ScriptText(sh, a) : sh \in {"call", "later", "bare", "other"}, a \in RatingArrays}

InitRatings ==
    /\ pc = "ready"
    /\ called = "none"
    /\ author_crawl = FALSE
    /\ response = NoResponse
    /\ emitted = <<>>
    /\ raised = FALSE
    /\ arg \in ScriptTexts
    /\ result = None
    /\ pending = <<>>

ExtractRatings ==
    /\ pc = "ready"
    /\ pc' = "done"
    /\ called' = "extract_ratings"
    /\ result' = extract_ratings(arg)
    /\ UNCHANGED <<author_crawl, response, emitted, raised, arg, pending>>

SpecRatings == InitRatings /\ [][ExtractRatings]_vars

-----------------------------------------------------------------------------
(* The about field on its own: the outer HTML of the first                  *)
(* div.aboutAuthorInfo, and of a second one the page may have.              *)

RECURSIVE Concat(_)
Concat(parts) == IF parts = <<>> THEN "" ELSE Head(parts) \o Concat(Tail(parts))

AboutTexts == {Concat(ts) : ts \in SeqsUpTo({"<b>", "b", " ", "\n", "<", ">"}, MaxLen)} \ {""}

InitAbout ==
    /\ pc = "ready"
    /\ called = "none"
    /\ author_crawl = FALSE
    /\ response = NoResponse
    /\ emitted = <<>>
    /\ raised = FALSE
    /\ arg \in AboutTexts
    /\ result = None
    /\ pending = <<>>

AboutField ==
    /\ pc = "ready"
    /\ pc' = "done"
    /\ called' = "about"
    /\ \E more \in {<<>>, <<"<div>edit\nx\ny</div>">>} :
          result' = AuthorItem_about_out(AuthorItem_about(<<arg>> \o more).vals)
    /\ UNCHANGED <<author_crawl, response, emitted, raised, arg, pending>>

SpecAbout == InitAbout /\ [][AboutField]_vars

-----------------------------------------------------------------------------
(* A crawl started from ListSpider.  pending is the bag of the requests    *)
(* the engine has scheduled, each [url, callback, hops]; the engine serves *)
(* them in any order and filters no duplicate.                             *)

Request(url, callback, hops) == [url |-> url, callback |-> callback, hops |-> hops]

\* the requests among what a callback yielded, one hop further
RECURSIVE Scheduled(_, _)
Scheduled(out, hops) ==
    IF out = <<>> \/ hops > MaxHops THEN EmptyBag
    ELSE (IF Head(out).kind = "request"
          THEN SetToBag({Request(Head(out).url, Head(out).callback, hops)})
          ELSE EmptyBag) (+) Scheduled(Tail(out), hops)

\* start_requests: a request per start url
StartRequests(urls) == SetToBag({Request(urls[i], "list.parse", 1) : i \in 1..Len(urls)})

CrawlListBodies ==
    SeqsUpTo({Node("a.bookTitle", "/book/show/1.T", "T"),
              Node("a", "/list/show/1.Best?page=2", "next")}, MaxAnchors)

CrawlBookBodies ==
    {<<>>,
     <<Node("a.authorName", "/author/show/1.A", "A")>>,
     <<Node("[itemprop=ratingCount]", "abc", ""), Node("a.authorName", "/author/show/1.A", "A")>>}

CrawlAuthorBodies ==
    {<<>>,
     <<Node("div.dataItem>span>a", "/author/show/3.C", "C"),
       Node("a", "/author/similar/1.A", "Similar authors"),
       Node("a", "/author/show/6.F", "F")>>}

InitCrawl ==
    /\ pc = "crawl"
    /\ called = "none"
    /\ author_crawl = BookSpider_init
    /\ response = NoResponse
    /\ emitted = <<>>
    /\ raised = FALSE
    /\ arg = "1.Best"
    /\ result = None
    /\ \E start_page_no \in 1..MaxPage : \E end_page_no \in 1..MaxPage :
          pending = StartRequests(StartUrls(arg, start_page_no, end_page_no))

\* the engine has served req: the callback ran on the response and what it
\* yielded is scheduled
Served(req, resp, r) ==
    /\ pc' = "crawl"
    /\ called' = req.callback
    /\ response' = resp
    /\ emitted' = r.out
    /\ raised' = r.raised
    /\ result' = req
    /\ pending' = (pending (-) SetToBag({req})) (+) Scheduled(r.out, req.hops + 1)
    /\ UNCHANGED <<author_crawl, arg>>

CrawlList ==
    /\ pc = "crawl"
    /\ \E req \in BagToSet(pending) : \E body \in CrawlListBodies :
          /\ req.callback = "list.parse"
          /\ \E resp \in {[url |-> req.url, body |-> body]} :
             \E r \in {ListSpider_parse(resp)} :
                Served(req, resp, r)

CrawlBook ==
    /\ pc = "crawl"
    /\ \E req \in BagToSet(pending) : \E body \in CrawlBookBodies :
          /\ req.callback = "book.parse"
          /\ \E resp \in {[url |-> req.url, body |-> body]} :
             \E g \in BookGenres(resp) :
             \E r \in {BookSpider_parse(resp, g)} :
                Served(req, resp, r)

CrawlAuthor ==
    /\ pc = "crawl"
    /\ \E req \in BagToSet(pending) : \E body \in CrawlAuthorBodies :
          /\ req.callback = "author.parse"
          /\ \E resp \in {[url |-> req.url, body |-> body]} :
             \E g \in AuthorGenres(resp) : \E f \in AuthorInfluences(resp) :
             \E r \in {AuthorSpider_parse(author_crawl, resp, g, f)} :
                Served(req, resp, r)

NextCrawl == CrawlList \/ CrawlBook \/ CrawlAuthor

\* the engine serves a scheduled request as long as there is one
SpecCrawl == InitCrawl /\ [][NextCrawl]_vars /\ WF_vars(NextCrawl)

-----------------------------------------------------------------------------
(* The properties.                                                         *)

Items(out) == SelectSeq(out, LAMBDA e : e.kind = "item")
Requests(out) == SelectSeq(out, LAMBDA e : e.kind = "request")
RequestUrls(out) == [i \in 1..Len(Requests(out)) |-> Requests(out)[i].url]

BookParsed == pc = "done" /\ called = "book.parse"
AuthorParsed == pc = "done" /\ called = "author.parse"

\* the nodes at one of the places sels whose href contains part
Fragments(body, sels, part) ==
    SelectSeq(body, LAMBDA n : n.sel \in sels /\ Contains(n.attr, part))

AbsoluteUrl(href) ==
    IF StartsWith(href, "https://") THEN href ELSE "https://www.goodreads.com" \o href

AbsoluteUrls(nodes) == [i \in 1..Len(nodes) |-> AbsoluteUrl(nodes[i].attr)]

\* C1: a book page with no a.authorName link, whose fields all load, makes
\* parse emit exactly one Book and no request, without failing.
C1_NoAuthorLinkEmitsBookOnly ==
    (/\ BookParsed
     /\ Css(response.body, "a.authorName") = <<>>
     /\ ~LoaderRaised(BookLoaderValues(response)))
    => (/\ ~raised
        /\ Len(emitted) = 1
        /\ emitted[1].kind = "item"
        /\ emitted[1].cls = "Book")

\* a book page with no author link: the Book is emitted, then parse fails
C1_FailsAfterBook ==
    /\ BookParsed
    /\ Css(response.body, "a.authorName") = <<>>
    /\ Css(response.body, "#bookTitle") # <<>>
    /\ Len(emitted) = 1
    /\ emitted[1].kind = "item"
    /\ raised

\* C2, as stated: with the author crawl disabled, parse emits exactly one
\* record and no request, whatever the url and the links of the page.
C2_DisabledCrawlOneRecord ==
    (AuthorParsed /\ ~author_crawl)
    => (Len(Items(emitted)) = 1 /\ Requests(emitted) = <<>>)

\* C2, amended: with the author crawl disabled, parse emits no request and
\* does not fail; it emits one Author record, of the requested url, when the
\* url starts with the author-page prefix and has no blog marker, and no
\* record otherwise.
C2_DisabledCrawlNoRequests ==
    (AuthorParsed /\ ~author_crawl)
    => (/\ ~raised
        /\ Requests(emitted) = <<>>
        /\ Len(emitted) =
              (IF /\ StartsWith(response.url, "https://www.goodreads.com/author/show/")
                  /\ ~Contains(response.url, "/blog?page=")
               THEN 1 ELSE 0)
        /\ \A i \in 1..Len(emitted) :
              /\ emitted[i].cls = "Author"
              /\ emitted[i].fields.url = Val(response.url))

\* an author's page with influences, a similar-authors link and another
\* author link, parsed with the crawl disabled: one record and nothing else
C2_DisabledCrawlOnLinkedPage ==
    /\ AuthorParsed
    /\ ~author_crawl
    /\ response.url = "https://www.goodreads.com/author/show/1.A"
    /\ Fragments(response.body, {"div.dataItem>span>a"}, "/author/show") # <<>>
    /\ Fragments(response.body, AnchorSels, "/author/similar") # <<>>
    /\ Fragments(response.body, {"a"}, "/author/show") # <<>>
    /\ Len(emitted) = 1

\* C3: a url with the blog marker "/blog?page=" makes parse emit nothing, in
\* both crawl modes and for an author-shaped url too.
C3_BlogPagesYieldNothing ==
    (AuthorParsed /\ Contains(response.url, "/blog?page="))
    => (emitted = <<>> /\ ~raised)

\* an author-shaped blog url with author links, parsed with the crawl enabled
C3_AuthorShapedBlogPage ==
    /\ AuthorParsed
    /\ author_crawl
    /\ response.url = "https://www.goodreads.com/author/show/1.A/blog?page=2"
    /\ Fragments(response.body, AnchorSels, "/author/show") # <<>>
    /\ Fragments(response.body, AnchorSels, "/author/similar") # <<>>
    /\ emitted = <<>>

\* what parse emits before the requests: the Author record of an author's
\* page, nothing for another page
C4_RecordFirst ==
    /\ Len(Items(emitted)) =
          (IF StartsWith(response.url, "https://www.goodreads.com/author/show/") THEN 1 ELSE 0)
    /\ emitted = Items(emitted) \o Requests(emitted)
    /\ \A i \in 1..Len(Requests(emitted)) : Requests(emitted)[i].callback = "author.parse"

C4_Influences == Fragments(response.body, {"div.dataItem>span>a"}, "/author/show")

C4_Similar ==
    IF Fragments(response.body, AnchorSels, "/author/similar") = <<>> THEN <<>>
    ELSE <<Fragments(response.body, AnchorSels, "/author/similar")[1]>>

C4_AuthorLinks == Fragments(response.body, AnchorSels, "/author/show")

\* C4, as stated: with the crawl enabled, after the record come the requests
\* for the influences in document order, for the similar-authors link if
\* there is one, and for every other author link: one the influences gave is
\* not requested again.
C4_OtherAuthorLinksOnly ==
    (AuthorParsed /\ author_crawl /\ ~Contains(response.url, "/blog?page="))
    => (/\ C4_RecordFirst
        /\ RequestUrls(emitted) =
              AbsoluteUrls(C4_Influences) \o AbsoluteUrls(C4_Similar)
              \o AbsoluteUrls(SelectSeq(C4_AuthorLinks,
                                        LAMBDA n : n.attr \notin Range(AttrsOf(C4_Influences)))))

\* C4, amended: with the crawl enabled, after the record come the requests
\* for the influences in document order, for the first similar-authors link
\* if there is one, and then for every author link of the page in document
\* order, those of the influences included a second time.
C4_AllAuthorLinksAgain ==
    (AuthorParsed /\ author_crawl /\ ~Contains(response.url, "/blog?page="))
    => (/\ ~raised
        /\ C4_RecordFirst
        /\ RequestUrls(emitted) =
              AbsoluteUrls(C4_Influences) \o AbsoluteUrls(C4_Similar)
              \o AbsoluteUrls(C4_AuthorLinks))

\* an author's page with an influence and a similar-authors link: the
\* influence is requested twice, around the similar-authors request
C4_InfluenceRequestedTwice ==
    /\ AuthorParsed
    /\ author_crawl
    /\ Len(Items(emitted)) = 1
    /\ Len(RequestUrls(emitted)) >= 3
    /\ RequestUrls(emitted)[1] = "https://www.goodreads.com/author/show/3.C"
    /\ RequestUrls(emitted)[2] = "https://www.goodreads.com/author/similar/1.A"
    /\ RequestUrls(emitted)[3] = "https://www.goodreads.com/author/show/3.C"

\* C5: a fragment its field's extractor rejects only drops its contribution;
\* parse does not fail on it and the Book is emitted.
C5_RecordAlwaysEmitted ==
    BookParsed => (Len(Items(emitted)) = 1 /\ Items(emitted)[1].cls = "Book")

\* a book page with a numeric and then a non-numeric rating count: parse
\* fails and emits nothing
C5_ParseAborted ==
    /\ BookParsed
    /\ AttrsOf(Css(response.body, "[itemprop=ratingCount]")) = <<"12", "abc">>
    /\ raised
    /\ emitted = <<>>

IsbnRowTexts == TextsOf(Fragments(response.body, {"div.infoBoxRowItem[itemprop=isbn]"}, ""))

\* the candidates of the three lookups, in lookup order, then document order
IsbnCandidates ==
    IsbnRowTexts
    \o TextsOf(Fragments(response.body, {"span[itemprop=isbn]"}, ""))
    \o TextsOf(Fragments(response.body,
                         {"div.infoBoxRowItem", "div.infoBoxRowItem[itemprop=isbn]"}, ""))

\* the first candidate that is n digits between its surrounding whitespace,
\* without that whitespace
FirstNumeric(cands, n) ==
    LET ok == {i \in 1..Len(cands) : Len(Strip(cands[i])) = n /\ IsDigit(Strip(cands[i]))}
    IN  IF ok = {} THEN None ELSE Val(Strip(cands[Min(ok)]))

\* the first candidate of n characters, as it is
FirstOfLength(cands, n) ==
    LET ok == {i \in 1..Len(cands) : Len(cands[i]) = n}
    IN  IF ok = {} THEN None ELSE Val(cands[Min(ok)])

NumericOrAbsent(field, n) == field = None \/ (Len(field.v) = n /\ IsDigit(field.v))

\* C6, as stated: in an emitted Book, isbn, isbn13 and asin are each the
\* first candidate of the three lookups (in lookup order, then document
\* order) that passes the field's rule: 10 digits, 13 digits, 10 characters.
C6_FirstOfThreeLookups ==
    (BookParsed /\ Items(emitted) # <<>>)
    => (/\ Items(emitted)[1].fields.isbn = FirstNumeric(IsbnCandidates, 10)
        /\ Items(emitted)[1].fields.isbn13 = FirstNumeric(IsbnCandidates, 13)
        /\ Items(emitted)[1].fields.asin = FirstOfLength(IsbnCandidates, 10))

\* C6, amended: in an emitted Book, isbn is absent or 10 digits, isbn13
\* absent or 13 digits, asin absent or 10 characters; isbn and isbn13 are the
\* first candidate of the three lookups (in lookup order, then document
\* order) that is 10 or 13 digits once stripped of surrounding whitespace,
\* emitted stripped; asin is the first text of the itemprop=isbn row lookup
\* alone that is 10 characters as it stands.
C6_IdentifierFormats ==
    (BookParsed /\ Items(emitted) # <<>>)
    => (/\ NumericOrAbsent(Items(emitted)[1].fields.isbn, 10)
        /\ NumericOrAbsent(Items(emitted)[1].fields.isbn13, 13)
        /\ Items(emitted)[1].fields.asin = None \/ Len(Items(emitted)[1].fields.asin.v) = 10
        /\ Items(emitted)[1].fields.isbn = FirstNumeric(IsbnCandidates, 10)
        /\ Items(emitted)[1].fields.isbn13 = FirstNumeric(IsbnCandidates, 13)
        /\ Items(emitted)[1].fields.asin = FirstOfLength(IsbnRowTexts, 10))

\* a page whose first identifier in document order is a 10-digit span, then
\* an ASIN span, then a 10-digit itemprop=isbn row: the row's is the isbn,
\* and the asin too
C6_LookupOrderBeforeDocumentOrder ==
    /\ BookParsed
    /\ Len(response.body) = 3
    /\ response.body[1] = Node("span[itemprop=isbn]", "", "\n0441172717 ")
    /\ response.body[2] = Node("span[itemprop=isbn]", "", "B00ABCDEFG")
    /\ response.body[3] = Node("div.infoBoxRowItem[itemprop=isbn]", "", "0439023483")
    /\ Items(emitted) # <<>>
    /\ Items(emitted)[1].fields.isbn = Val("0439023483")
    /\ Items(emitted)[1].fields.asin = Val("0439023483")
    /\ Items(emitted)[1].fields.isbn13 = None

\* C7: a histogram extract_ratings returns has the keys 1..5 and counts that
\* are not negative, element i of the array under key 5 - i; without the
\* renderRatingGraph marker it returns None.
C7_FiveStarHistogram ==
    (pc = "done" /\ called = "extract_ratings")
    => (/\ result.t = "val"
           => (/\ DOMAIN result.v = 1..5
               /\ \A k \in DOMAIN result.v : result.v[k] >= 0)
        /\ ~Contains(arg, "renderRatingGraph") => result = None)

\* the call renderRatingGraph([6, 3]) gives a histogram of two keys
C7_TwoKeyHistogram ==
    /\ pc = "done"
    /\ called = "extract_ratings"
    /\ arg = "renderRatingGraph([6, 3]);"
    /\ result.t = "val"
    /\ DOMAIN result.v = {4, 5}
    /\ result.v[5] = 6
    /\ result.v[4] = 3

\* the field is absent without fragments, else a list of each distinct
\* fragment once
SetOf(field, frags) ==
    IF frags = <<>> THEN field = None
    ELSE /\ field # None
         /\ Len(field.v) = Cardinality(Range(frags))
         /\ Range(field.v) = Range(frags)

\* the field is absent without fragments, else the fragments as they came
ListOf(field, frags) == field = (IF frags = <<>> THEN None ELSE Val(frags))

\* C8: genres and influences hold each distinct fragment once; awards,
\* places and characters hold the fragments in document order, duplicates
\* kept.
C8_SetAndListFields ==
    /\ (BookParsed /\ Items(emitted) # <<>>)
       => (/\ SetOf(Items(emitted)[1].fields.genres,
                    TextsOf(Fragments(response.body, {"div.left>a.bookPageGenreLink"}, "/genres/")))
           /\ ListOf(Items(emitted)[1].fields.awards,
                     TextsOf(Fragments(response.body, {"a.award"}, "")))
           /\ ListOf(Items(emitted)[1].fields.places,
                     TextsOf(Fragments(response.body, {"div.infoBoxRowItem>a"}, "places")))
           /\ ListOf(Items(emitted)[1].fields.characters,
                     TextsOf(Fragments(response.body, AnchorSels, "/characters/"))))
    /\ (AuthorParsed /\ Items(emitted) # <<>>)
       => (/\ SetOf(Items(emitted)[1].fields.genres,
                    TextsOf(Fragments(response.body, {"div.dataItem>a"}, "/genres/")))
           /\ SetOf(Items(emitted)[1].fields.influences,
                    TextsOf(Fragments(response.body, {"div.dataItem>span>a"}, "/author/show"))))

\* a book page with the genres Fiction, Drama, Fiction: a genres list of two
C8_GenresFictionDramaFiction ==
    /\ BookParsed
    /\ TextsOf(response.body) = <<"Fiction", "Drama", "Fiction">>
    /\ Items(emitted) # <<>>
    /\ Len(Items(emitted)[1].fields.genres.v) = 2

\* the lines of the fragment without its tags that are not blank, stripped,
\* after the first
AboutRest ==
    LET lines == Split(remove_tags(arg), "\n")
        kept == SelectSeq([i \in 1..Len(lines) |-> Strip(lines[i])], LAMBDA l : l # "")
    IN  IF kept = <<>> THEN <<>> ELSE Tail(kept)

\* C9, as stated: about is the stripped non-blank lines of the first
\* fragment without its tags, after the first line, joined by newlines.
C9_AboutJoinedByNewlines ==
    (pc = "done" /\ called = "about")
    => result = (IF AboutRest = <<>> THEN None ELSE Val(JoinWith("\n", AboutRest)))

\* C9, amended: about is the stripped non-blank lines of the first fragment
\* without its tags, after the first line, joined by single spaces; the
\* field is absent when no line remains.
C9_AboutJoinedBySpaces ==
    (pc = "done" /\ called = "about")
    => result = (IF AboutRest = <<>> THEN None ELSE Val(JoinWith(" ", AboutRest)))

\* a fragment of three lines: the last two, with a space between them
C9_TwoLinesRemain ==
    /\ pc = "done"
    /\ called = "about"
    /\ arg = "b\nb\nb"
    /\ result = Val("b b")

\* a scheduled request is a list page at hop 1, a book page at hop 2 or an
\* author page at hop 3
ChainShape(req) ==
    \/ req.hops = 1 /\ req.callback = "list.parse"
    \/ req.hops = 2 /\ req.callback = "book.parse"
    \/ req.hops = 3 /\ req.callback = "author.parse"

\* C10: in a crawl started from ListSpider the AuthorSpider of BookSpider
\* has the author crawl disabled, an author page yields no request, every
\* request is a list, book or author page at hops 1, 2, 3, and the crawl
\* comes to have no pending request, for good.
C10_ListCrawlTerminates ==
    /\ [](/\ author_crawl = FALSE
          /\ \A req \in BagToSet(pending) : ChainShape(req)
          /\ called = "author.parse" => Requests(emitted) = <<>>)
    /\ <>[](pending = EmptyBag)

\* an author page with author links, reached from a book page, served as the
\* last pending request: it yields its record and no request
C10_AuthorPageEndsChain ==
    /\ pc = "crawl"
    /\ called = "author.parse"
    /\ result.hops = 3
    /\ Fragments(response.body, AnchorSels, "/author/show") # <<>>
    /\ Len(emitted) = 1
    /\ emitted[1].kind = "item"
    /\ pending = EmptyBag

====
